---- MODULE Spec2Model ----
(***************************************************************************)
(* A model of scripts/catalog/generate_sherpa_model_catalog.py: the        *)
(* repository classifier (_classify_repo and its pickers), the identifier  *)
(* normalizer, and the catalog run of main() over a fallible repository    *)
(* source.                                                                 *)
(*                                                                         *)
(* Python strings are TLA+ strings; they are taken apart with Len, SubSeq  *)
(* and \o, character by character, over the ASCII alphabet below.          *)
(***************************************************************************)
EXTENDS Integers, Sequences, FiniteSets, TLC

VARIABLES
    pc,          \* position of main(): "search", "loop", "done"
    term_idx,    \* index into SEARCH_TERMS of the search in flight
    attempt,     \* loop variable of _http_get_json for the request in flight
    last_err,    \* _http_get_json's last_err for the request in flight
    discovered,  \* main: set of repository ids
    todo,        \* main: the part of sorted(discovered) still to visit
    sib_cache,   \* main: repo id -> Some(listing) or Nothing
    entries,     \* main: classified entries, in classification order
    skipped,     \* main: counter
    gated,       \* main: counter
    asset_file,  \* the documents written to ASSET_PATH, in order
    repo_name,   \* classifier run: argument
    files,       \* classifier run: argument
    classified,  \* classifier run: the list returned
    cl_pc,       \* classifier run: "call", "returned"
    nid_pc,      \* normalizer run: "call", "once", "twice"
    nid_once,    \* normalizer run: _normalize_id(repo_name)
    nid_twice,   \* normalizer run: _normalize_id of nid_once
    http_pc,     \* request run: "attempt", "returned"
    http_result, \* request run: the value _http_get_json returned
    http_log     \* request run: the responses met, one per attempt made

vars == <<pc, term_idx, attempt, last_err, discovered, todo, sib_cache,
          entries, skipped, gated, asset_file, repo_name, files, classified, cl_pc,
          nid_pc, nid_once, nid_twice, http_pc, http_result, http_log>>

mainVars == <<pc, term_idx, attempt, last_err, discovered, todo, sib_cache,
              entries, skipped, gated, asset_file>>

clVars == <<repo_name, files, classified, cl_pc>>

nidVars == <<nid_pc, nid_once, nid_twice>>

httpVars == <<http_pc, http_result, http_log>>

\* Python's None where a str is expected (Optional[str]).
None == "<None>"

\* Optional[List[str]] and Optional[Dict]: <<>> is None, <<x>> is the value x.
Nothing == <<>>

Some(x) == <<x>>

(***************************************************************************)
(* Module constants of the script.                                         *)
(***************************************************************************)
AUTHOR == "csukuangfj"

SEARCH_TERMS == <<"vits", "matcha", "kokoro", "kitten">>

REV == "main"

OFFICIAL_COQUI_REPO == "vits-coqui-en-ljspeech"

SCHEMA_VERSION == 1

\* The default of _http_get_json's retries parameter.
RETRIES == 4

(***************************************************************************)
(* Strings.                                                                *)
(***************************************************************************)
\* The characters of the model, in ascending code point order.
Alphabet == "\t\n\f\r !#()+-./0123456789ABCDEFGHIJKLMNOPQRSTUVWXYZ\\_abcdefghijklmnopqrstuvwxyz"

LowerLetters == "abcdefghijklmnopqrstuvwxyz"

UpperLetters == "ABCDEFGHIJKLMNOPQRSTUVWXYZ"

DigitChars == "0123456789"

Char(s, i) == SubSeq(s, i, i)

Rest(s) == SubSeq(s, 2, Len(s))

CharsOf(s) == {Char(s, i) : i \in 1..Len(s)}

\* The index of character c in string s (c occurs in s).
IndexIn(c, s) == CHOOSE i \in 1..Len(s) : Char(s, i) = c

LowerSet == CharsOf(LowerLetters)

UpperSet == CharsOf(UpperLetters)

DigitSet == CharsOf(DigitChars)

\* ord(c), up to an order-preserving renumbering.
OrdTable == [c \in CharsOf(Alphabet) |-> IndexIn(c, Alphabet)]

Ord(c) == OrdTable[c]

\* Python's a < b on str: lexicographic by code point.
StrLess(a, b) ==
    \E i \in 1..(Len(b)) :
        /\ i <= Len(a) + 1
        /\ SubSeq(a, 1, i - 1) = SubSeq(b, 1, i - 1)
        /\ \/ i = Len(a) + 1
           \/ i <= Len(a) /\ Ord(Char(a, i)) < Ord(Char(b, i))

\* str.startswith
StartsWith(s, p) == Len(p) <= Len(s) /\ SubSeq(s, 1, Len(p)) = p

\* str.endswith
EndsWith(s, p) == Len(p) <= Len(s) /\ SubSeq(s, Len(s) - Len(p) + 1, Len(s)) = p

\* Python's  sub in s  on str.
Contains(s, sub) ==
    \E i \in 1..(Len(s) - Len(sub) + 1) : SubSeq(s, i, i + Len(sub) - 1) = sub

IsDigit(c) == c \in DigitSet

DigitValue == [c \in DigitSet |-> IndexIn(c, DigitChars) - 1]

\* int(d) for a string of ASCII digits.
RECURSIVE ParseInt(_)
ParseInt(d) ==
    IF d = "" THEN 0
    ELSE 10 * ParseInt(SubSeq(d, 1, Len(d) - 1)) + DigitValue[Char(d, Len(d))]

\* str.lower on one character.
LowerTable == [c \in UpperSet |-> Char(LowerLetters, IndexIn(c, UpperLetters))]

LowerChar(c) == IF c \in UpperSet THEN LowerTable[c] ELSE c

\* str.lower
RECURSIVE Lower(_)
Lower(s) == IF s = "" THEN "" ELSE LowerChar(Char(s, 1)) \o Lower(Rest(s))

\* str.replace(a, b) for single characters a, b.
RECURSIVE ReplaceChar(_, _, _)
ReplaceChar(s, a, b) ==
    IF s = "" THEN ""
    ELSE (IF Char(s, 1) = a THEN b ELSE Char(s, 1)) \o ReplaceChar(Rest(s), a, b)

\* str.lstrip(chars) and str.rstrip(chars), chars given as a set.
RECURSIVE LStrip(_, _)
LStrip(s, cs) ==
    IF s # "" /\ Char(s, 1) \in cs THEN LStrip(Rest(s), cs) ELSE s

RECURSIVE RStrip(_, _)
RStrip(s, cs) ==
    IF s # "" /\ Char(s, Len(s)) \in cs THEN RStrip(SubSeq(s, 1, Len(s) - 1), cs)
    ELSE s

\* str.strip(chars)
Strip(s, cs) == RStrip(LStrip(s, cs), cs)

\* The characters str.strip() removes.
Whitespace == {" ", "\t", "\n", "\r", "\f"}

\* sorted(set(xs)) for a set of strings: ascending, no duplicates.
RECURSIVE SortedSet(_)
SortedSet(S) ==
    IF S = {} THEN <<>>
    ELSE LET m == CHOOSE x \in S : \A y \in S : y = x \/ StrLess(x, y)
         IN  <<m>> \o SortedSet(S \ {m})

Range(q) == {q[i] : i \in 1..Len(q)}

\* [x for x in q if x in S], order kept.
RECURSIVE FilterIn(_, _)
FilterIn(q, S) ==
    IF q = <<>> THEN <<>>
    ELSE (IF Head(q) \in S THEN <<Head(q)>> ELSE <<>>) \o FilterIn(Tail(q), S)

(***************************************************************************)
(* _normalize_id                                                           *)
(***************************************************************************)
\* The class the first re.sub keeps: the complement of [^a-z0-9\\-], where
\* the raw-string \\ is an escaped backslash inside the class.
IdKeepChars == LowerSet \cup DigitSet \cup {"\\", "-"}

\* re.sub(r"[^a-z0-9\\-]+", "-", s); inRun: the previous character was replaced.
RECURSIVE SubNonIdRuns(_, _)
SubNonIdRuns(s, inRun) ==
    IF s = "" THEN ""
    ELSE IF Char(s, 1) \in IdKeepChars
         THEN Char(s, 1) \o SubNonIdRuns(Rest(s), FALSE)
         ELSE (IF inRun THEN "" ELSE "-") \o SubNonIdRuns(Rest(s), TRUE)

\* re.sub(r"-{2,}", "-", s); prevHyphen: the previous character was a hyphen.
RECURSIVE CollapseHyphens(_, _)
CollapseHyphens(s, prevHyphen) ==
    IF s = "" THEN ""
    ELSE IF Char(s, 1) = "-"
         THEN (IF prevHyphen THEN "" ELSE "-") \o CollapseHyphens(Rest(s), TRUE)
         ELSE Char(s, 1) \o CollapseHyphens(Rest(s), FALSE)

\* Mutant of _normalize_id: the two substitutions in the other order.
_normalize_id_SubsSwapped(name) ==
    LET s1 == ReplaceChar(Lower(Strip(name, Whitespace)), "_", "-")
        s2 == CollapseHyphens(s1, FALSE)
    IN  Strip(SubNonIdRuns(s2, FALSE), {"-"})

_normalize_id(name) ==
    LET s1 == ReplaceChar(Lower(Strip(name, Whitespace)), "_", "-")
        s2 == SubNonIdRuns(s1, FALSE)
    IN  Strip(CollapseHyphens(s2, FALSE), {"-"})

(***************************************************************************)
(* Regular expressions of the script.  A pattern ending in $ matches up to *)
(* the end of the string or up to a final newline; . matches no newline.   *)
(***************************************************************************)
DollarBody(f) == IF EndsWith(f, "\n") THEN SubSeq(f, 1, Len(f) - 1) ELSE f

NoNewline(s) == "\n" \notin CharsOf(s)

\* The text captured by (\d+) when _MATCHA_STEPS_RE matches f.
StepDigits(f) == SubSeq(DollarBody(f), 13, Len(DollarBody(f)) - 5)

\* _MATCHA_STEPS_RE.match(f) is not None
_MATCHA_STEPS_RE(f) ==
    /\ StartsWith(f, "model-steps-")
    /\ EndsWith(DollarBody(f), ".onnx")
    /\ Len(DollarBody(f)) >= 12 + 1 + 5
    /\ \A c \in CharsOf(StepDigits(f)) : IsDigit(c)

\* ^lexicon.*\.txt$
MatchLexicon(f) ==
    /\ StartsWith(DollarBody(f), "lexicon")
    /\ EndsWith(DollarBody(f), ".txt")
    /\ Len(DollarBody(f)) >= 7 + 4
    /\ NoNewline(SubSeq(DollarBody(f), 8, Len(DollarBody(f)) - 4))

\* ^.*<ext>$ for a literal extension such as ".fst"
MatchExt(f, ext) ==
    /\ EndsWith(DollarBody(f), ext)
    /\ NoNewline(SubSeq(DollarBody(f), 1, Len(DollarBody(f)) - Len(ext)))

\* re.compile(pattern).match(f) is not None, for the patterns the script uses.
RegexMatch(pattern, f) ==
    CASE pattern = "^lexicon.*\\.txt$" -> MatchLexicon(f)
      [] pattern = "^lexicon.*\\.txt$|^lexicon\\.txt$" ->
            MatchLexicon(f) \/ DollarBody(f) = "lexicon.txt"
      [] pattern = "^.*\\.far$" -> MatchExt(f, ".far")
      [] pattern = "^.*\\.fst$" -> MatchExt(f, ".fst")

(***************************************************************************)
(* Root files and the asset pickers.                                       *)
(***************************************************************************)
_root_files(fs) == FilterIn(fs, {f \in Range(fs) : ~Contains(f, "/")})

RECURSIVE _pick_one(_, _)
_pick_one(candidates, available) ==
    IF candidates = <<>> THEN None
    ELSE IF Head(candidates) \in available THEN Head(candidates)
    ELSE _pick_one(Tail(candidates), available)

_pick_single_root_onnx(root) ==
    LET onnx == FilterIn(root, {f \in Range(root) : EndsWith(f, ".onnx")})
    IN  IF Len(onnx) = 1 THEN onnx[1] ELSE None

\* Python's  a or b  for a, b of type Optional[str].
PyOr(a, b) == IF a = None \/ a = "" THEN b ELSE a

_pick_vits_onnx(root) ==
    PyOr(_pick_one(<<"model.int8.onnx", "model.fp16.onnx", "model.onnx">>, Range(root)),
         _pick_single_root_onnx(root))

_pick_kokoro_onnx(root) ==
    PyOr(_pick_one(<<"model.int8.onnx", "model.onnx">>, Range(root)),
         _pick_single_root_onnx(root))

\* Mutant of _pick_kitten_onnx: the preference order of the other families.
_pick_kitten_onnx_Int8First(root) ==
    PyOr(_pick_one(<<"model.int8.onnx", "model.fp16.onnx", "model.onnx">>, Range(root)),
         _pick_single_root_onnx(root))

_pick_kitten_onnx(root) ==
    PyOr(_pick_one(<<"model.fp16.onnx", "model.onnx", "model.int8.onnx">>, Range(root)),
         _pick_single_root_onnx(root))

\* The list step_files: (int(m.group(1)), f) for the matching f, in root order.
RECURSIVE StepFiles(_)
StepFiles(root) ==
    IF root = <<>> THEN <<>>
    ELSE (IF _MATCHA_STEPS_RE(Head(root))
          THEN <<<<ParseInt(StepDigits(Head(root))), Head(root)>>>>
          ELSE <<>>) \o StepFiles(Tail(root))

\* x put into the list q (sorted by key) behind every element whose key is <= x's.
RECURSIVE InsertByKey(_, _)
InsertByKey(x, q) ==
    IF q = <<>> THEN <<x>>
    ELSE IF q[Len(q)][1] <= x[1] THEN q \o <<x>>
    ELSE InsertByKey(x, SubSeq(q, 1, Len(q) - 1)) \o <<q[Len(q)]>>

\* list.sort(key=lambda x: x[0]): stable, ascending by key.
RECURSIVE SortByKey(_)
SortByKey(q) ==
    IF q = <<>> THEN <<>>
    ELSE InsertByKey(q[Len(q)], SortByKey(SubSeq(q, 1, Len(q) - 1)))

\* Mutant of _pick_matcha_acoustic: the step files are not sorted by step
\* count, the first in listing order is taken.
_pick_matcha_acoustic_ListingOrder(root) ==
    IF "model-steps-3.onnx" \in Range(root) THEN "model-steps-3.onnx"
    ELSE IF StepFiles(root) # <<>> THEN StepFiles(root)[1][2]
    ELSE IF "model.onnx" \in Range(root) THEN "model.onnx"
    ELSE _pick_single_root_onnx(root)

\* Mutant of _pick_matcha_acoustic: no preference for the exact 3-step name.
_pick_matcha_acoustic_NoExactThree(root) ==
    IF StepFiles(root) # <<>> THEN SortByKey(StepFiles(root))[1][2]
    ELSE IF "model.onnx" \in Range(root) THEN "model.onnx"
    ELSE _pick_single_root_onnx(root)

_pick_matcha_acoustic(root) ==
    IF "model-steps-3.onnx" \in Range(root) THEN "model-steps-3.onnx"
    ELSE IF StepFiles(root) # <<>> THEN SortByKey(StepFiles(root))[1][2]
    ELSE IF "model.onnx" \in Range(root) THEN "model.onnx"
    ELSE _pick_single_root_onnx(root)

_has_prefix(fs, prefix) == \E f \in Range(fs) : StartsWith(f, prefix)

\* x put into the ascending list q.
RECURSIVE InsertStr(_, _)
InsertStr(x, q) ==
    IF q = <<>> THEN <<x>>
    ELSE IF ~StrLess(x, q[Len(q)]) THEN q \o <<x>>
    ELSE InsertStr(x, SubSeq(q, 1, Len(q) - 1)) \o <<q[Len(q)]>>

\* sorted(q) for a list of strings.
RECURSIVE SortedList(_)
SortedList(q) ==
    IF q = <<>> THEN <<>>
    ELSE InsertStr(q[Len(q)], SortedList(SubSeq(q, 1, Len(q) - 1)))

_collect_root_matching(root, pattern) ==
    SortedList(FilterIn(root, {f \in Range(root) : RegexMatch(pattern, f)}))

(***************************************************************************)
(* _best_effort_language and _display_name                                 *)
(***************************************************************************)
\* \w of the re module, on the model's alphabet.
WordSet == LowerSet \cup UpperSet \cup DigitSet \cup {"_"}

IsWordChar(c) == c \in WordSet

WordAt(s, i) == i >= 1 /\ i <= Len(s) /\ IsWordChar(Char(s, i))

\* \b holds between the characters i - 1 and i of s.
WordBoundary(s, i) == WordAt(s, i - 1) # WordAt(s, i)

\* One position of a locale shape: "l" is [a-z], "U" is [A-Z], else the literal.
ShapeChar(k, c) ==
    CASE k = "l" -> c \in LowerSet
      [] k = "U" -> c \in UpperSet
      [] OTHER -> c = k

\* \b(<shape>)\b matches s at index i.
ShapeAt(s, i, shape) ==
    /\ i + Len(shape) - 1 <= Len(s)
    /\ \A k \in 1..Len(shape) : ShapeChar(Char(shape, k), Char(s, i + k - 1))
    /\ WordBoundary(s, i)
    /\ WordBoundary(s, i + Len(shape))

\* re.search(r"\b(<shape>)\b", s) tried from index i on: group 1 of the
\* leftmost match, or None.
RECURSIVE SearchShapeFrom(_, _, _)
SearchShapeFrom(s, i, shape) ==
    IF i > Len(s) THEN None
    ELSE IF ShapeAt(s, i, shape) THEN SubSeq(s, i, i + Len(shape) - 1)
    ELSE SearchShapeFrom(s, i + 1, shape)

SearchShape(s, shape) == SearchShapeFrom(s, 1, shape)

_best_effort_language(name) ==
    LET m1 == SearchShape(name, "ll_UU")
        m2 == SearchShape(name, "ll-UU")
        m3 == SearchShape(name, "ll_ll")
        m4 == SearchShape(name, "ll")
    IN  IF m1 # None THEN m1
        ELSE IF m2 # None THEN m2
        ELSE IF m3 # None THEN m3
        ELSE IF m4 # None THEN m4
        ELSE "unknown"

\* s.split(sep) for a single character sep; cur is the part being read.
RECURSIVE SplitFrom(_, _, _)
SplitFrom(s, sep, cur) ==
    IF s = "" THEN <<cur>>
    ELSE IF Char(s, 1) = sep THEN <<cur>> \o SplitFrom(Rest(s), sep, "")
    ELSE SplitFrom(Rest(s), sep, cur \o Char(s, 1))

Split(s, sep) == SplitFrom(s, sep, "")

\* sep.join(q)
RECURSIVE Join(_, _)
Join(q, sep) ==
    IF q = <<>> THEN ""
    ELSE IF Len(q) = 1 THEN q[1]
    ELSE q[1] \o sep \o Join(Tail(q), sep)

\* s[len(prefix):]
DropPrefix(s, prefix) == SubSeq(s, Len(prefix) + 1, Len(s))

\* s with prefix removed when it starts with it.
StripFamily(s, prefix) == IF StartsWith(s, prefix) THEN DropPrefix(s, prefix) ELSE s

\* The body of the vits-piper- case of _display_name.
PiperBits(name) ==
    LET parts  == Split(DropPrefix(name, "vits-piper-"), "-")
        locale == parts[1]
        voice  == IF Len(parts) >= 2 THEN parts[2] ELSE ""
        qual   == IF Len(parts) >= 3 THEN Join(SubSeq(parts, 3, Len(parts)), " ") ELSE ""
        bits   == <<ReplaceChar(locale, "_", "-"), voice, qual>>
    IN  Strip(Join(FilterIn(bits, Range(bits) \ {""}), " "), Whitespace)

_display_name(name, model_type, variant) ==
    CASE model_type = "vits" ->
            IF StartsWith(name, "vits-piper-") THEN "Piper VITS (" \o PiperBits(name) \o ")"
            ELSE IF StartsWith(name, "vits-coqui-")
                 THEN "Coqui VITS (" \o DropPrefix(name, "vits-coqui-") \o ")"
            ELSE IF StartsWith(name, "vits-mimic3-")
                 THEN "Mimic3 VITS (" \o DropPrefix(name, "vits-mimic3-") \o ")"
            ELSE IF StartsWith(name, "icefall-tts-")
                 THEN "Icefall VITS (" \o DropPrefix(name, "icefall-tts-") \o ")"
            ELSE "VITS (" \o name \o ")"
      [] model_type = "matcha" ->
            "Matcha (" \o StripFamily(name, "matcha-") \o ")"
                \o (IF variant # "" THEN " + " \o variant ELSE "")
      [] model_type = "kokoro" -> "Kokoro (" \o StripFamily(name, "kokoro-") \o ")"
      [] model_type = "kitten" -> "Kitten (" \o StripFamily(name, "kitten-") \o ")"
      [] OTHER -> name

(***************************************************************************)
(* Catalog entries.  An entry is a record; "dependencies" is a field only  *)
(* of the entries that have it.                                            *)
(***************************************************************************)
Meta(languages, description) ==
    [languages |-> languages, description |-> description, size_hint_mb |-> 0]

_make_entry(model_id, display, engine, model_type, source_repo, fs, prefixes, dependencies, languages, description) ==
    IF dependencies # <<>>
    THEN [id |-> model_id, display_name |-> display, engine |-> engine,
          model_type |-> model_type,
          source |-> [kind |-> "hf", repo |-> source_repo, rev |-> REV],
          files |-> fs, prefixes |-> prefixes, dependencies |-> dependencies,
          meta |-> Meta(languages, description)]
    ELSE [id |-> model_id, display_name |-> display, engine |-> engine,
          model_type |-> model_type,
          source |-> [kind |-> "hf", repo |-> source_repo, rev |-> REV],
          files |-> fs, prefixes |-> prefixes,
          meta |-> Meta(languages, description)]

\* e.get("dependencies", [])
DepsOf(e) == IF "dependencies" \in DOMAIN e THEN e.dependencies ELSE <<>>

(***************************************************************************)
(* _classify_repo                                                          *)
(***************************************************************************)
\* Python's  not x  for x of type Optional[str].
Falsy(x) == x = None \/ x = ""

\* tokens = "tokens.txt" in root_set
HasTokens(root) == "tokens.txt" \in Range(root)

\* Mutant of HasVoices: the Kokoro and Kitten gate tests tokens.txt only.
HasVoices_TokensOnly(root) == "tokens.txt" \in Range(root)

\* voices = "voices.bin" in root_set
HasVoices(root) == "voices.bin" \in Range(root)

\* Mutant of dep_espeak: the dependency is attached to every entry.
dep_espeak_Always(fs) == <<"sherpa-espeak-ng-data">>

\* Mutant of dep_espeak: the dependency is named after the directory.
dep_espeak_DirName(fs) ==
    IF _has_prefix(fs, "espeak-ng-data/") THEN <<"espeak-ng-data">> ELSE <<>>

\* The local function dep_espeak of _classify_repo.
dep_espeak(fs) ==
    IF _has_prefix(fs, "espeak-ng-data/") THEN <<"sherpa-espeak-ng-data">> ELSE <<>>

\* Mutant of DictPrefixes: the prefix is listed whether or not dict/ exists.
DictPrefixes_Always(fs) == <<"dict/">>

\* prefixes = ["dict/"] if has_dict else []
DictPrefixes(fs) == IF _has_prefix(fs, "dict/") THEN <<"dict/">> ELSE <<>>

\* The conditions of the four family branches.
IsMatcha(name, root) ==
    Contains(name, "matcha") \/ \E f \in Range(root) : _MATCHA_STEPS_RE(f)

IsKokoro(name) == Contains(name, "kokoro")

IsKitten(name) == Contains(name, "kitten")

IsVits(name) == Contains(name, "vits")

\* Mutant of CoquiDropped: the Coqui rule is missing.
CoquiDropped_Never(name) == FALSE

\* The condition under which the VITS branch drops a Coqui repository.
CoquiDropped(name) ==
    StartsWith(name, "vits-coqui-") /\ name # OFFICIAL_COQUI_REPO

\* Mutant of MatchaEntry: both entries get the bare normalized name as id.
MatchaEntry_NoSuffix(repo_id, name, fs, acoustic, suffix, variant, vocoder) ==
    [id |-> _normalize_id(name),
     display_name |-> _display_name(name, "matcha", variant),
     engine |-> "sherpa_offline_tts",
     model_type |-> "matcha",
     source |-> [kind |-> "hf", repo |-> repo_id, rev |-> REV],
     files |-> <<acoustic, "tokens.txt">>,
     prefixes |-> IF _has_prefix(fs, "dict/") THEN <<"dict/">> ELSE <<>>,
     dependencies |-> <<vocoder>>
        \o (IF _has_prefix(fs, "espeak-ng-data/") THEN <<"sherpa-espeak-ng-data">> ELSE <<>>),
     meta |-> Meta(_best_effort_language(name),
                   "Matcha acoustic model via sherpa-onnx OfflineTtsMatchaModelConfig.")]

\* One of the two dict literals of the Matcha branch.
MatchaEntry(repo_id, name, fs, acoustic, suffix, variant, vocoder) ==
    [id |-> _normalize_id(name) \o suffix,
     display_name |-> _display_name(name, "matcha", variant),
     engine |-> "sherpa_offline_tts",
     model_type |-> "matcha",
     source |-> [kind |-> "hf", repo |-> repo_id, rev |-> REV],
     files |-> <<acoustic, "tokens.txt">>,
     prefixes |-> DictPrefixes(fs),
     dependencies |-> <<vocoder>> \o dep_espeak(fs),
     meta |-> Meta(_best_effort_language(name),
                   "Matcha acoustic model via sherpa-onnx OfflineTtsMatchaModelConfig.")]

MatchaBranch(repo_id, name, fs) ==
    LET root     == _root_files(fs)
        acoustic == _pick_matcha_acoustic(root)
    IN  IF ~HasTokens(root) THEN <<>>
        ELSE IF Falsy(acoustic) THEN <<>>
        ELSE << MatchaEntry(repo_id, name, fs, acoustic, "-hifigan", "HiFiGAN",
                            "sherpa-hifigan-v3"),
                MatchaEntry(repo_id, name, fs, acoustic, "-vocos", "Vocos",
                            "sherpa-vocos-22khz-univ") >>

KokoroBranch(repo_id, name, fs) ==
    LET root == _root_files(fs)
        onnx == _pick_kokoro_onnx(root)
    IN  IF ~HasTokens(root) \/ ~HasVoices(root) THEN <<>>
        ELSE IF Falsy(onnx) THEN <<>>
        ELSE << _make_entry(_normalize_id(name), _display_name(name, "kokoro", ""),
                    "sherpa_offline_tts", "kokoro", repo_id,
                    <<onnx, "tokens.txt", "voices.bin">>
                        \o _collect_root_matching(root, "^lexicon.*\\.txt$")
                        \o _collect_root_matching(root, "^.*\\.fst$"),
                    DictPrefixes(fs), dep_espeak(fs), _best_effort_language(name),
                    "Kokoro TTS via sherpa-onnx OfflineTtsKokoroModelConfig.") >>

KittenBranch(repo_id, name, fs) ==
    LET root == _root_files(fs)
        onnx == _pick_kitten_onnx(root)
    IN  IF ~HasTokens(root) \/ ~HasVoices(root) THEN <<>>
        ELSE IF Falsy(onnx) THEN <<>>
        ELSE << _make_entry(_normalize_id(name), _display_name(name, "kitten", ""),
                    "sherpa_offline_tts", "kitten", repo_id,
                    <<onnx, "tokens.txt", "voices.bin">>,
                    DictPrefixes(fs), dep_espeak(fs), _best_effort_language(name),
                    "Kitten TTS via sherpa-onnx OfflineTtsKittenModelConfig.") >>

VitsBranch(repo_id, name, fs) ==
    LET root == _root_files(fs)
        onnx == _pick_vits_onnx(root)
    IN  IF CoquiDropped(name) THEN <<>>
        ELSE IF ~HasTokens(root) THEN <<>>
        ELSE IF Falsy(onnx) THEN <<>>
        ELSE << _make_entry(_normalize_id(name), _display_name(name, "vits", ""),
                    "sherpa_offline_tts", "vits", repo_id,
                    <<onnx, "tokens.txt">>
                        \o _collect_root_matching(root, "^lexicon.*\\.txt$|^lexicon\\.txt$")
                        \o _collect_root_matching(root, "^.*\\.far$")
                        \o _collect_root_matching(root, "^.*\\.fst$"),
                    DictPrefixes(fs), dep_espeak(fs), _best_effort_language(name),
                    "VITS voice via sherpa-onnx OfflineTtsVitsModelConfig.") >>

\* Mutant of BranchOf: the VITS test comes first.
BranchOf_VitsFirst(name, fs) ==
    IF IsVits(name) THEN "vits"
    ELSE IF IsMatcha(name, _root_files(fs)) THEN "matcha"
    ELSE IF IsKokoro(name) THEN "kokoro"
    ELSE IF IsKitten(name) THEN "kitten"
    ELSE "none"

\* The family whose branch _classify_repo takes: the first whose test holds.
BranchOf(name, fs) ==
    IF IsMatcha(name, _root_files(fs)) THEN "matcha"
    ELSE IF IsKokoro(name) THEN "kokoro"
    ELSE IF IsKitten(name) THEN "kitten"
    ELSE IF IsVits(name) THEN "vits"
    ELSE "none"

_classify_repo(repo_id, name, fs) ==
    LET branch == BranchOf(name, fs)
    IN  CASE branch = "matcha" -> MatchaBranch(repo_id, name, fs)
          [] branch = "kokoro" -> KokoroBranch(repo_id, name, fs)
          [] branch = "kitten" -> KittenBranch(repo_id, name, fs)
          [] branch = "vits" -> VitsBranch(repo_id, name, fs)
          [] OTHER -> <<>>

(***************************************************************************)
(* _fixed_entries                                                          *)
(***************************************************************************)
_fixed_entries ==
    << [id |-> "android-system-tts", display_name |-> "Android System TTS",
        engine |-> "android_system_tts", model_type |-> "system",
        source |-> [kind |-> "system"], files |-> <<>>, prefixes |-> <<>>,
        meta |-> Meta("system", "Android TextToSpeech baseline.")],
       [id |-> "nemo-fastpitch-hifigan-en",
        display_name |-> "NVIDIA NeMo FastPitch + HiFiGAN (EN)",
        engine |-> "nemo_ort", model_type |-> "nemo_fastpitch_hifigan",
        source |-> [kind |-> "local_bundle", bundle_name |-> "nemo-fastpitch-hifigan-en"],
        files |-> <<"fastpitch.onnx", "hifigan.onnx", "symbols.json", "config.json">>,
        prefixes |-> <<>>,
        meta |-> Meta("en", "Local-import ONNX bundle exported from NVIDIA NeMo models. Push via adb.")],
       [id |-> "sherpa-espeak-ng-data", display_name |-> "espeak-ng-data (shared)",
        engine |-> "asset_only", model_type |-> "asset",
        source |-> [kind |-> "hf", repo |-> "csukuangfj/vits-piper-en_US-amy-low", rev |-> REV],
        files |-> <<>>, prefixes |-> <<"espeak-ng-data/">>,
        meta |-> Meta("n/a", "Shared espeak-ng-data directory used by many sherpa-onnx TTS models.")],
       [id |-> "sherpa-hifigan-v3", display_name |-> "HiFiGAN Vocoder (v3)",
        engine |-> "asset_only", model_type |-> "vocoder",
        source |-> [kind |-> "hf", repo |-> "csukuangfj/sherpa-onnx-hifigan", rev |-> REV],
        files |-> <<"hifigan_v3.onnx">>, prefixes |-> <<>>,
        meta |-> Meta("n/a", "Vocoder dependency for Matcha models.")],
       [id |-> "sherpa-vocos-22khz-univ", display_name |-> "Vocos Vocoder (22kHz univ)",
        engine |-> "asset_only", model_type |-> "vocoder",
        source |-> [kind |-> "hf", repo |-> "k2-fsa/sherpa-onnx-models", rev |-> REV],
        files |-> <<"vocoder-models/vocos-22khz-univ.onnx">>, prefixes |-> <<>>,
        meta |-> Meta("n/a", "Vocoder dependency for Matcha (Vocos) models.")] >>

(***************************************************************************)
(* The repository source: _http_get_json, _hf_list_models, _hf_siblings.   *)
(* A response to one attempt is a record:                                  *)
(*   [kind |-> "response", status, body]   urlopen returned                *)
(*   [kind |-> "http_error", code]         urlopen raised HTTPError        *)
(*   [kind |-> "exception"]                anything else raised, a body    *)
(*                                         that is not JSON included       *)
(***************************************************************************)
\* What one pass of the for loop of _http_get_json does with a response.
HttpOutcome(resp) ==
    CASE resp.kind = "response" ->
            IF resp.status # 200 THEN "return_none" ELSE "return_data"
      [] resp.kind = "http_error" ->
            IF resp.code \in {401, 403, 404} THEN "return_none" ELSE "retry"
      [] resp.kind = "exception" -> "retry"

\* Mutant of HttpRetries: one attempt more than retries allows.
HttpRetries_OneMore(att, resp) == HttpOutcome(resp) = "retry" /\ att + 1 <= RETRIES

\* The request in flight goes on to another attempt after this response.
HttpRetries(att, resp) == HttpOutcome(resp) = "retry" /\ att + 1 < RETRIES

\* The value _http_get_json returns when the request ends with this response.
HttpResult(resp) ==
    IF HttpOutcome(resp) = "return_data" THEN Some(resp.body) ELSE Nothing

\* _hf_list_models from the value of _http_get_json.  A JSON list is a
\* sequence of model ids; None stands for an object without a str modelId.
_hf_list_models(data) ==
    IF data = Nothing \/ data[1].items = <<>> THEN <<>>
    ELSE IF ~data[1].is_list THEN <<>>
    ELSE FilterIn(data[1].items, Range(data[1].items) \ {None, ""})

\* _hf_siblings from the value of _http_get_json.  A JSON object is a record
\* [empty, siblings]: siblings is Nothing when it is no list, else
\* Some(names), None standing for an item without a str rfilename.
_hf_siblings(data) ==
    IF data = Nothing \/ data[1].empty THEN Nothing
    ELSE IF data[1].siblings = Nothing THEN Some(<<>>)
    ELSE Some(SortedSet(Range(data[1].siblings[1]) \ {None, ""}))

(***************************************************************************)
(* main: the de-duplication and the document written.                      *)
(***************************************************************************)
\* repo_id.split("/", 1)[1]
RepoName(repo_id) ==
    LET i == CHOOSE j \in 1..Len(repo_id) :
                 /\ Char(repo_id, j) = "/"
                 /\ \A h \in 1..(j - 1) : Char(repo_id, h) # "/"
    IN  SubSeq(repo_id, i + 1, Len(repo_id))

\* Mutant of by_id: an id once set is not overwritten.
by_id_FirstWins(es) ==
    [k \in {es[i].id : i \in 1..Len(es)} |->
        es[CHOOSE i \in 1..Len(es) :
               /\ es[i].id = k
               /\ \A j \in 1..(i - 1) : es[j].id # k]]

\* by_id after the loop  for e in entries: by_id[e["id"]] = e
by_id(es) ==
    [k \in {es[i].id : i \in 1..Len(es)} |->
        es[CHOOSE i \in 1..Len(es) :
               /\ es[i].id = k
               /\ \A j \in (i + 1)..Len(es) : es[j].id # k]]

\* [by_id[k] for k in sorted(by_id.keys())]
RECURSIVE Pick(_, _)
Pick(f, keys) ==
    IF keys = <<>> THEN <<>> ELSE <<f[Head(keys)]>> \o Pick(f, Tail(keys))

\* The ids of es in the order of their first occurrence: the key order of
\* the dict by_id.
RECURSIVE KeyOrder(_, _)
KeyOrder(es, seen) ==
    IF es = <<>> THEN <<>>
    ELSE IF Head(es).id \in seen THEN KeyOrder(Tail(es), seen)
    ELSE <<Head(es).id>> \o KeyOrder(Tail(es), seen \cup {Head(es).id})

\* Mutant of dyn_entries: the values of by_id are taken unsorted.
dyn_entries_Unsorted(es) == Pick(by_id(es), KeyOrder(es, {}))

\* Mutant of dyn_entries: the classified entries are appended as they are.
dyn_entries_NoDedup(es) == es

dyn_entries(es) == Pick(by_id(es), SortedSet(DOMAIN by_id(es)))

Document(es) ==
    [schema_version |-> SCHEMA_VERSION, models |-> _fixed_entries \o dyn_entries(es)]

(***************************************************************************)
(* The inputs explored.                                                    *)
(***************************************************************************)
\* The largest listing handed to a single classifier call.
MaxFiles == 4

\* The largest number of repositories a run discovers.
MaxRepos == 2

\* Repository names handed to a single classifier call.
NameUniverse ==
    { "vits-piper-en_US-amy-low", "vits-coqui-en-ljspeech", "vits-coqui-en-other",
      "matcha-icefall-zh-baker", "kokoro-en-v0_19", "kitten-nano-en-v0_1-fp16",
      "kitten-vits-matcha", "sherpa-onnx-models" }

\* Paths a listing is drawn from.
FileUniverse ==
    { "tokens.txt", "voices.bin", "model.onnx", "model.int8.onnx", "model.fp16.onnx",
      "model-steps-3.onnx", "model-steps-2.onnx", "model-steps-10.onnx", "other.onnx",
      "lexicon.txt", "rule.fst", "date.far", "dict/jieba.dict.utf8",
      "espeak-ng-data/phontab", "sub/extra.onnx" }

\* The listings of a classifier call: as _hf_siblings returns them, sorted
\* and without duplicates.
ListingUniverse ==
    {SortedSet(S) : S \in {T \in SUBSET FileUniverse : Cardinality(T) <= MaxFiles}}

\* Model ids the search may return.
RepoUniverse ==
    { "csukuangfj/vits-piper-en-US-amy", "csukuangfj/vits-piper-en_US-amy",
      "csukuangfj/vits-piper-en-US-bob", "csukuangfj/vits", "csukuangfj/vits-hifigan",
      "csukuangfj/matcha-icefall-en", "csukuangfj/sherpa-hifigan-v3",
      "k2-fsa/vits-other" }

\* Bodies of a 200 response to a search: a JSON list of at most two objects,
\* an empty list, and a JSON object.
SearchBodies ==
    {[is_list |-> TRUE, items |-> q] :
        q \in {<<>>, <<None>>} \cup {<<a>> : a \in RepoUniverse}
              \cup {<<a, b>> : a, b \in RepoUniverse}}
    \cup {[is_list |-> FALSE, items |-> <<"error">>]}

\* Raw sibling lists of a 200 response to a model lookup: in any order, with
\* repeats and unusable items.
SiblingLists ==
    { <<"tokens.txt", "model.onnx", "espeak-ng-data/phontab", "tokens.txt">>,
      <<"tokens.txt", "model-steps-6.onnx", None, "model-steps-3.onnx">>,
      <<"README.md", "">> }

SiblingBodies ==
    {[empty |-> FALSE, siblings |-> Some(q)] : q \in SiblingLists}
    \cup {[empty |-> FALSE, siblings |-> Nothing], [empty |-> TRUE, siblings |-> Nothing]}

\* What one attempt can meet besides a 200 response.
FailedResponses ==
    {[kind |-> "response", status |-> 204, body |-> Nothing]}
    \cup {[kind |-> "http_error", code |-> c] : c \in {401, 403, 404, 500}}
    \cup {[kind |-> "exception"]}

SearchResponses ==
    {[kind |-> "response", status |-> 200, body |-> b] : b \in SearchBodies}
    \cup FailedResponses

SiblingResponses ==
    {[kind |-> "response", status |-> 200, body |-> b] : b \in SiblingBodies}
    \cup FailedResponses

(***************************************************************************)
(* main()                                                                  *)
(***************************************************************************)
MainInit ==
    /\ pc = "search"
    /\ term_idx = 1
    /\ attempt = 0
    /\ last_err = Nothing
    /\ discovered = {}
    /\ todo = <<>>
    /\ sib_cache = [r \in {} |-> Nothing]
    /\ entries = <<>>
    /\ skipped = 0
    /\ gated = 0
    /\ asset_file = <<>>

\* An attempt of the request in flight fails and another attempt follows.
RetryStep(resp) ==
    /\ attempt' = attempt + 1
    /\ last_err' = Some(resp)

\* One attempt of the search for SEARCH_TERMS[term_idx] that is followed by
\* another attempt.
SearchRetry ==
    /\ pc = "search"
    /\ \E resp \in SearchResponses :
        /\ HttpRetries(attempt, resp)
        /\ RetryStep(resp)
    /\ UNCHANGED <<pc, term_idx, discovered, todo, sib_cache, entries, skipped,
                   gated, asset_file>>

\* All orders in which a set can be listed.
OrdersOf(S) ==
    {q \in [1..Cardinality(S) -> S] : \A i, j \in 1..Cardinality(S) : i # j => q[i] # q[j]}

\* Mutant of SearchDone: the loop runs over discovered as the set happens to
\* list its members, not over sorted(discovered).
SearchDone_Unsorted ==
    /\ pc = "search"
    /\ \E resp \in SearchResponses :
        /\ ~HttpRetries(attempt, resp)
        /\ LET mids  == _hf_list_models(HttpResult(resp))
               found == discovered \cup
                            {m \in Range(mids) : StartsWith(m, AUTHOR \o "/")}
           IN  /\ Cardinality(found) <= MaxRepos
               /\ discovered' = found
               /\ IF term_idx < Len(SEARCH_TERMS)
                  THEN /\ term_idx' = term_idx + 1
                       /\ UNCHANGED <<pc, todo>>
                  ELSE /\ pc' = "loop"
                       /\ todo' \in OrdersOf(found)
                       /\ UNCHANGED term_idx
    /\ attempt' = 0
    /\ last_err' = Nothing
    /\ UNCHANGED <<sib_cache, entries, skipped, gated, asset_file>>

\* The attempt that ends the search for SEARCH_TERMS[term_idx], and the body
\* of the for loops over the ids returned; after the last term, the sort.
SearchDone ==
    /\ pc = "search"
    /\ \E resp \in SearchResponses :
        /\ ~HttpRetries(attempt, resp)
        /\ LET mids  == _hf_list_models(HttpResult(resp))
               found == discovered \cup
                            {m \in Range(mids) : StartsWith(m, AUTHOR \o "/")}
           IN  /\ Cardinality(found) <= MaxRepos
               /\ discovered' = found
               /\ IF term_idx < Len(SEARCH_TERMS)
                  THEN /\ term_idx' = term_idx + 1
                       /\ UNCHANGED <<pc, todo>>
                  ELSE /\ pc' = "loop"
                       /\ todo' = SortedSet(found)
                       /\ UNCHANGED term_idx
    /\ attempt' = 0
    /\ last_err' = Nothing
    /\ UNCHANGED <<sib_cache, entries, skipped, gated, asset_file>>

\* One attempt of the lookup of Head(todo) that is followed by another.
SiblingsRetry ==
    /\ pc = "loop"
    /\ todo # <<>>
    /\ Head(todo) \notin DOMAIN sib_cache
    /\ \E resp \in SiblingResponses :
        /\ HttpRetries(attempt, resp)
        /\ RetryStep(resp)
    /\ UNCHANGED <<pc, term_idx, discovered, todo, sib_cache, entries, skipped,
                   gated, asset_file>>

\* Mutant of Visit: an unavailable repository goes on as an empty listing.
Visit_UnavailableAsEmpty(repo_id, listing) ==
    /\ sib_cache' = [r \in DOMAIN sib_cache \cup {repo_id} |->
                        IF r = repo_id THEN listing ELSE sib_cache[r]]
    /\ gated' = IF listing = Nothing THEN gated + 1 ELSE gated
    /\ LET cls == IF listing = Nothing THEN <<>>
                  ELSE _classify_repo(repo_id, RepoName(repo_id), listing[1])
       IN  IF cls = <<>>
           THEN /\ skipped' = skipped + 1
                /\ UNCHANGED entries
           ELSE /\ entries' = entries \o cls
                /\ UNCHANGED skipped

\* The body of  for repo_id in sorted(discovered)  once the listing is in.
Visit(repo_id, listing) ==
    /\ sib_cache' = [r \in DOMAIN sib_cache \cup {repo_id} |->
                        IF r = repo_id THEN listing ELSE sib_cache[r]]
    /\ IF listing = Nothing
       THEN /\ gated' = gated + 1
            /\ UNCHANGED <<entries, skipped>>
       ELSE LET cls == _classify_repo(repo_id, RepoName(repo_id), listing[1])
            IN  IF cls = <<>>
                THEN /\ skipped' = skipped + 1
                     /\ UNCHANGED <<entries, gated>>
                ELSE /\ entries' = entries \o cls
                     /\ UNCHANGED <<skipped, gated>>

\* The attempt that ends the lookup of Head(todo), and the rest of the loop
\* body for that repository.
SiblingsDone ==
    /\ pc = "loop"
    /\ todo # <<>>
    /\ Head(todo) \notin DOMAIN sib_cache
    /\ \E resp \in SiblingResponses :
        /\ ~HttpRetries(attempt, resp)
        /\ Visit(Head(todo), _hf_siblings(HttpResult(resp)))
    /\ todo' = Tail(todo)
    /\ attempt' = 0
    /\ last_err' = Nothing
    /\ UNCHANGED <<pc, term_idx, discovered, asset_file>>

\* After the loop: de-duplicate, sort, and write the document.
WriteCatalog ==
    /\ pc = "loop"
    /\ todo = <<>>
    /\ asset_file' = Append(asset_file, Document(entries))
    /\ pc' = "done"
    /\ UNCHANGED <<term_idx, attempt, last_err, discovered, todo, sib_cache,
                   entries, skipped, gated>>

\* The classifier variables play no part in a run of main.
ClIdle ==
    /\ repo_name = ""
    /\ files = <<>>
    /\ classified = <<>>
    /\ cl_pc = "idle"

\* Nor do those of a single normalizer call or a single request.
NidIdle ==
    /\ nid_pc = "idle"
    /\ nid_once = ""
    /\ nid_twice = ""

HttpIdle ==
    /\ http_pc = "idle"
    /\ http_result = Nothing
    /\ http_log = <<>>

Init == MainInit /\ ClIdle /\ NidIdle /\ HttpIdle

Next ==
    \/ SearchRetry /\ UNCHANGED <<clVars, nidVars, httpVars>>
    \/ SearchDone /\ UNCHANGED <<clVars, nidVars, httpVars>>
    \/ SiblingsRetry /\ UNCHANGED <<clVars, nidVars, httpVars>>
    \/ SiblingsDone /\ UNCHANGED <<clVars, nidVars, httpVars>>
    \/ WriteCatalog /\ UNCHANGED <<clVars, nidVars, httpVars>>

Spec == Init /\ [][Next]_vars

(***************************************************************************)
(* A single call of _classify_repo on a listing of the repository source.  *)
(***************************************************************************)
ClassifyInit ==
    /\ repo_name \in NameUniverse
    /\ files \in ListingUniverse
    /\ classified = <<>>
    /\ cl_pc = "call"
    /\ MainInit
    /\ NidIdle
    /\ HttpIdle

Classify ==
    /\ cl_pc = "call"
    /\ classified' = _classify_repo(AUTHOR \o "/" \o repo_name, repo_name, files)
    /\ cl_pc' = "returned"
    /\ UNCHANGED <<repo_name, files>>
    /\ UNCHANGED <<mainVars, nidVars, httpVars>>

ClassifyNext == Classify

ClassifySpec == ClassifyInit /\ [][ClassifyNext]_vars

(***************************************************************************)
(* _normalize_id applied to a name, and again to what it returned.         *)
(***************************************************************************)
\* The longest name handed to the normalizer.
MaxIdLen == 4

\* Characters of those names: a lower-case and an upper-case letter, a digit,
\* the two separators, white space, and the backslash.
IdChars == {"a", "B", "7", "-", "_", " ", "\\"}

RECURSIVE StringsUpTo(_)
StringsUpTo(n) ==
    IF n = 0 THEN {""}
    ELSE LET shorter == StringsUpTo(n - 1)
         IN  shorter \cup {s \o c : s \in shorter, c \in IdChars}

IdInputs == StringsUpTo(MaxIdLen)

NormalizeInit ==
    /\ repo_name \in IdInputs
    /\ nid_pc = "call"
    /\ nid_once = ""
    /\ nid_twice = ""
    /\ files = <<>>
    /\ classified = <<>>
    /\ cl_pc = "idle"
    /\ MainInit
    /\ HttpIdle

Normalize ==
    /\ nid_pc = "call"
    /\ nid_once' = _normalize_id(repo_name)
    /\ nid_pc' = "once"
    /\ UNCHANGED <<nid_twice, repo_name, files, classified, cl_pc, mainVars, httpVars>>

NormalizeAgain ==
    /\ nid_pc = "once"
    /\ nid_twice' = _normalize_id(nid_once)
    /\ nid_pc' = "twice"
    /\ UNCHANGED <<nid_once, repo_name, files, classified, cl_pc, mainVars, httpVars>>

NormalizeNext == Normalize \/ NormalizeAgain

NormalizeSpec == NormalizeInit /\ [][NormalizeNext]_vars

(***************************************************************************)
(* A single call of _http_get_json: one pass of its for loop per step.     *)
(***************************************************************************)
HttpInit ==
    /\ http_pc = "attempt"
    /\ http_result = Nothing
    /\ http_log = <<>>
    /\ MainInit
    /\ ClIdle
    /\ NidIdle

\* One pass of the loop: the attempt meets resp; the pass returns, or records
\* the error and goes round again, or records it and leaves the loop, after
\* which None is returned.
HttpAttempt(resp) ==
    /\ http_pc = "attempt"
    /\ http_log' = Append(http_log, resp)
    /\ IF HttpRetries(attempt, resp)
       THEN /\ RetryStep(resp)
            /\ UNCHANGED <<http_pc, http_result>>
       ELSE /\ http_pc' = "returned"
            /\ http_result' = HttpResult(resp)
            /\ last_err' = IF HttpOutcome(resp) = "retry" THEN Some(resp) ELSE last_err
            /\ UNCHANGED attempt
    /\ UNCHANGED <<pc, term_idx, discovered, todo, sib_cache, entries, skipped,
                   gated, asset_file, clVars, nidVars>>

HttpNext == \E resp \in SearchResponses \cup SiblingResponses : HttpAttempt(resp)

HttpSpec == HttpInit /\ [][HttpNext]_vars

(***************************************************************************)
(* Claims about a single classifier call (ClassifySpec).                   *)
(***************************************************************************)
\* The root files of the listing handed to the call.
RootSet == {f \in Range(files) : ~Contains(f, "/")}

Families == {"matcha", "kokoro", "kitten", "vits"}

FamilyOrder == <<"matcha", "kokoro", "kitten", "vits">>

\* The membership test of family F on the call's arguments.
Member(F) ==
    CASE F = "matcha" ->
            Contains(repo_name, "matcha") \/ \E f \in RootSet : _MATCHA_STEPS_RE(f)
      [] F = "kokoro" -> Contains(repo_name, "kokoro")
      [] F = "kitten" -> Contains(repo_name, "kitten")
      [] F = "vits" -> Contains(repo_name, "vits")

\* The root files family F requires.
RequiredFiles(F) ==
    IF F \in {"kokoro", "kitten"} THEN {"tokens.txt", "voices.bin"} ELSE {"tokens.txt"}

\* F is the first family, in the order of the tests, whose test holds.
Selected(F) ==
    \E i \in 1..Len(FamilyOrder) :
        /\ FamilyOrder[i] = F
        /\ Member(F)
        /\ \A j \in 1..(i - 1) : ~Member(FamilyOrder[j])

Returned == cl_pc = "returned"

\* C1 as stated: for every family F whose membership test the repository
\* satisfies, a missing required root file of F means zero entries.
C1_EveryMemberFamilyGated ==
    Returned =>
        \A F \in Families :
            (Member(F) /\ ~(RequiredFiles(F) \subseteq RootSet)) => classified = <<>>

\* C1 amended: for the first family, in the order Matcha, Kokoro, Kitten,
\* VITS, whose membership test the repository satisfies, a missing required
\* root file of that family means zero entries.
C1_SelectedFamilyGated ==
    Returned =>
        \A F \in Families :
            (Selected(F) /\ ~(RequiredFiles(F) \subseteq RootSet)) => classified = <<>>

\* A Kokoro repository with tokens.txt and a model but no voices.bin was
\* classified, to zero entries.
C1_Witness ==
    /\ Returned
    /\ Selected("kokoro")
    /\ "tokens.txt" \in RootSet
    /\ "model.onnx" \in RootSet
    /\ "voices.bin" \notin RootSet
    /\ classified = <<>>

\* The ordered preference list of family F.
Preference(F) ==
    CASE F = "vits" -> <<"model.int8.onnx", "model.fp16.onnx", "model.onnx">>
      [] F = "kokoro" -> <<"model.int8.onnx", "model.onnx">>
      [] F = "kitten" -> <<"model.fp16.onnx", "model.onnx", "model.int8.onnx">>

\* The first name of the list pref that is in S, None when there is none.
FirstPresent(pref, S) ==
    IF \E i \in 1..Len(pref) : pref[i] \in S
    THEN pref[CHOOSE i \in 1..Len(pref) :
                  pref[i] \in S /\ \A j \in 1..(i - 1) : pref[j] \notin S]
    ELSE None

RootOnnx == {f \in RootSet : EndsWith(f, ".onnx")}

\* The single root file ending in .onnx, None unless there is exactly one.
SingleRootOnnx ==
    IF Cardinality(RootOnnx) = 1 THEN CHOOSE f \in RootOnnx : TRUE ELSE None

\* The picker of family F applied to the root files of the listing.
PickOf(F) ==
    CASE F = "vits" -> _pick_vits_onnx(_root_files(files))
      [] F = "kokoro" -> _pick_kokoro_onnx(_root_files(files))
      [] F = "kitten" -> _pick_kitten_onnx(_root_files(files))
      [] F = "matcha" -> _pick_matcha_acoustic(_root_files(files))

\* C2: the VITS, Kokoro and Kitten picks return the first name of the
\* family's preference list present at root, else the single root .onnx
\* file, else none; with no pick the family's repository yields no entry.
C2_PreferencePick ==
    Returned =>
        \A F \in {"vits", "kokoro", "kitten"} :
            /\ PickOf(F) = (IF FirstPresent(Preference(F), RootSet) # None
                            THEN FirstPresent(Preference(F), RootSet)
                            ELSE SingleRootOnnx)
            /\ (Selected(F) /\ PickOf(F) = None) => classified = <<>>

\* A Kitten repository holding both model.onnx and model.int8.onnx was
\* classified and its entry carries model.onnx.
C2_Witness ==
    /\ Returned
    /\ Selected("kitten")
    /\ {"model.onnx", "model.int8.onnx"} \subseteq RootSet
    /\ Len(classified) = 1
    /\ classified[1].files[1] = "model.onnx"

StepSet == {f \in RootSet : _MATCHA_STEPS_RE(f)}

StepCount(f) == ParseInt(StepDigits(f))

\* C3: the Matcha pick is model-steps-3.onnx if at root; else a step file
\* of the smallest step count if there is any step file; else model.onnx
\* if at root; else the single root .onnx file; else none.
C3_MatchaPickOrder ==
    Returned =>
        IF "model-steps-3.onnx" \in RootSet THEN PickOf("matcha") = "model-steps-3.onnx"
        ELSE IF StepSet # {}
             THEN /\ PickOf("matcha") \in StepSet
                  /\ \A g \in StepSet : StepCount(PickOf("matcha")) <= StepCount(g)
        ELSE IF "model.onnx" \in RootSet THEN PickOf("matcha") = "model.onnx"
        ELSE PickOf("matcha") = SingleRootOnnx

\* A repository holding the 2-step and the 10-step checkpoint and no 3-step
\* one was classified and its entries carry the 2-step file.
C3_Witness ==
    /\ Returned
    /\ {"model-steps-2.onnx", "model-steps-10.onnx"} \subseteq RootSet
    /\ "model-steps-3.onnx" \notin RootSet
    /\ Len(classified) = 2
    /\ classified[1].files[1] = "model-steps-2.onnx"

VocoderIds == {"sherpa-hifigan-v3", "sherpa-vocos-22khz-univ"}

\* The lists d1 and d2 differ in exactly one place, which holds the HiFiGAN
\* id in d1 and the Vocos id in d2.
DifferInVocoderOnly(d1, d2) ==
    /\ Len(d1) = Len(d2)
    /\ Cardinality({i \in 1..Len(d1) : d1[i] # d2[i]}) = 1
    /\ \A i \in 1..Len(d1) :
          d1[i] # d2[i] => d1[i] = "sherpa-hifigan-v3" /\ d2[i] = "sherpa-vocos-22khz-univ"

QualifiesAsMatcha ==
    /\ Member("matcha")
    /\ "tokens.txt" \in RootSet
    /\ PickOf("matcha") # None

\* C4: a qualifying Matcha repository yields exactly two entries, with ids
\* <normalized name>-hifigan and <normalized name>-vocos, equal files,
\* prefixes, source and meta, and dependencies differing only in the vocoder.
C4_MatchaExpansion ==
    (Returned /\ QualifiesAsMatcha) =>
        /\ Len(classified) = 2
        /\ classified[1].id = _normalize_id(repo_name) \o "-hifigan"
        /\ classified[2].id = _normalize_id(repo_name) \o "-vocos"
        /\ classified[1].files = classified[2].files
        /\ classified[1].prefixes = classified[2].prefixes
        /\ classified[1].source = classified[2].source
        /\ classified[1].meta = classified[2].meta
        /\ DifferInVocoderOnly(DepsOf(classified[1]), DepsOf(classified[2]))

\* A qualifying Matcha repository with espeak-ng-data/ and dict/ was classified.
C4_Witness ==
    /\ Returned
    /\ QualifiesAsMatcha
    /\ Len(classified) = 2
    /\ Len(DepsOf(classified[1])) = 2
    /\ classified[1].prefixes = <<"dict/">>

NonCanonicalCoqui ==
    StartsWith(repo_name, "vits-coqui-") /\ repo_name # "vits-coqui-en-ljspeech"

\* C5 as stated: a repository named vits-coqui-... other than the canonical
\* one yields zero entries, for every listing.
C5_CoquiAlwaysDropped ==
    (Returned /\ NonCanonicalCoqui) => classified = <<>>

\* C5 amended: a repository named vits-coqui-... other than the canonical
\* one, which satisfies none of the Matcha, Kokoro and Kitten membership
\* tests, yields zero entries, for every listing.
C5_CoquiDroppedAsVits ==
    (Returned /\ NonCanonicalCoqui /\ Selected("vits")) => classified = <<>>

\* A non-canonical Coqui repository with tokens.txt and model.onnx, which
\* the canonical one would be listed for, was classified to zero entries.
C5_Witness ==
    /\ Returned
    /\ NonCanonicalCoqui
    /\ Selected("vits")
    /\ {"tokens.txt", "model.onnx"} \subseteq RootSet
    /\ classified = <<>>

\* C9: every path in an entry's files is a root file of the listing, and
\* every prefix of the entry is a prefix of some path of the listing.
C9_NoFabricatedPaths ==
    Returned =>
        \A k \in 1..Len(classified) :
            /\ \A f \in Range(classified[k].files) : f \in RootSet
            /\ \A q \in Range(classified[k].prefixes) :
                  \E f \in Range(files) : StartsWith(f, q)

\* An entry with auxiliary files and a prefix was produced.
C9_Witness ==
    /\ Returned
    /\ Len(classified) = 1
    /\ Len(classified[1].files) >= 3
    /\ classified[1].prefixes # <<>>

HasEspeakPath == \E f \in Range(files) : StartsWith(f, "espeak-ng-data/")

\* C10: an entry depends on sherpa-espeak-ng-data exactly when the listing
\* has a path under espeak-ng-data/; the first Matcha entry has the HiFiGAN
\* vocoder id and no other, the second the Vocos id and no other; an entry
\* of another family has no vocoder id.
C10_Dependencies ==
    Returned =>
        \A k \in 1..Len(classified) :
            LET deps == DepsOf(classified[k])
            IN  /\ ("sherpa-espeak-ng-data" \in Range(deps)) <=> HasEspeakPath
                /\ IF classified[k].model_type = "matcha"
                   THEN /\ Cardinality({i \in 1..Len(deps) : deps[i] \in VocoderIds}) = 1
                        /\ k = 1 => "sherpa-hifigan-v3" \in Range(deps)
                        /\ k = 2 => "sherpa-vocos-22khz-univ" \in Range(deps)
                   ELSE Range(deps) \cap VocoderIds = {}

\* A Matcha repository with espeak-ng-data/ was classified: its second
\* entry depends on the Vocos vocoder and on the espeak data.
C10_Witness ==
    /\ Returned
    /\ Len(classified) = 2
    /\ HasEspeakPath
    /\ DepsOf(classified[2]) = <<"sherpa-vocos-22khz-univ", "sherpa-espeak-ng-data">>

(***************************************************************************)
(* Claims about a run of main (Spec).                                      *)
(***************************************************************************)
Done == pc = "done"

\* The models list of the document written, once it is written.
Models == asset_file[1].models

FixedIds ==
    <<"android-system-tts", "nemo-fastpitch-hifigan-en", "sherpa-espeak-ng-data",
      "sherpa-hifigan-v3", "sherpa-vocos-22khz-univ">>

\* C6: no two entries of the models list of a catalog written, fixed or
\* dynamic, have the same id.
C6_UniqueIds ==
    \A d \in Range(asset_file) :
        \A i, j \in 1..Len(d.models) : i # j => d.models[i].id # d.models[j].id

\* A catalog was written in which de-duplication dropped a classified entry.
C6_Witness ==
    /\ Done
    /\ Len(Models) > Len(FixedIds)
    /\ Len(Models) - Len(FixedIds) < Len(entries)

\* C7: the models list of a catalog written starts with the five fixed
\* entries in their declared order, followed by the dynamic entries in
\* strictly ascending id order.
C7_FixedThenSorted ==
    \A d \in Range(asset_file) :
        /\ Len(d.models) >= Len(FixedIds)
        /\ \A i \in 1..Len(FixedIds) : d.models[i].id = FixedIds[i]
        /\ SubSeq(d.models, 1, Len(FixedIds)) = _fixed_entries
        /\ \A i \in (Len(FixedIds) + 1)..(Len(d.models) - 1) :
              StrLess(d.models[i].id, d.models[i + 1].id)

\* A catalog was written whose dynamic entries were classified in another
\* order than the one they are written in.
C7_Witness ==
    /\ Done
    /\ Len(Models) = Len(FixedIds) + Len(entries)
    /\ SubSeq(Models, Len(FixedIds) + 1, Len(Models)) # entries

\* The step in which the lookup of Head(todo) ends as unavailable.
UnavailableStep ==
    /\ pc = "loop"
    /\ todo # <<>>
    /\ todo' = Tail(todo)
    /\ sib_cache'[Head(todo)] = Nothing

\* A bound on the number of steps the run has left: the attempts of the
\* searches and lookups still to make, and the write.
StepsLeft ==
    CASE pc = "search" ->
            (Len(SEARCH_TERMS) - term_idx + 1) * RETRIES - attempt
                + Cardinality(RepoUniverse) * RETRIES + 1
      [] pc = "loop" -> Len(todo) * RETRIES - attempt + 1
      [] pc = "done" -> 0

\* C8: a repository whose lookup ends as unavailable adds no entry, adds one
\* to gated and nothing to skipped, and leaves the run in its loop, at the
\* next repository (not looked up yet) or at the write; every step of a run
\* leaves fewer steps to make, and the last one writes one catalog.
C8_UnavailableContained ==
    /\ [][UnavailableStep =>
            /\ entries' = entries
            /\ gated' = gated + 1
            /\ skipped' = skipped
            /\ pc' = "loop"
            /\ discovered' = discovered
            /\ todo' # <<>> => Head(todo') \notin DOMAIN sib_cache']_vars
    /\ [][/\ StepsLeft' < StepsLeft
          /\ StepsLeft' >= 0
          /\ StepsLeft' = 0 => Len(asset_file') = 1]_vars

\* A run met an unavailable repository, went on to classify another one,
\* and wrote the catalog with its entries.
C8_Witness ==
    /\ Done
    /\ gated = 1
    /\ skipped = 0
    /\ entries # <<>>
    /\ Len(Models) = Len(FixedIds) + Len(entries)

\* The least step count of the step files at root.
MinStepCount ==
    CHOOSE n \in {StepCount(f) : f \in StepSet} : \A g \in StepSet : n <= StepCount(g)

\* C13 as stated: whenever a step file is at root, the Matcha pick is a step
\* file whose step count is the least of all step files at root.
C13_AlwaysFewestSteps ==
    (Returned /\ StepSet # {}) =>
        /\ PickOf("matcha") \in StepSet
        /\ StepCount(PickOf("matcha")) = MinStepCount

\* C13 amended: whenever a step file is at root, the Matcha pick is a step
\* file: model-steps-3.onnx when that name is at root, whatever the other
\* step counts are, and otherwise one of the least step count; the entries
\* of the repository carry that file as their acoustic model.
C13_FewestStepsUnlessThree ==
    (Returned /\ StepSet # {}) =>
        /\ PickOf("matcha") \in StepSet
        /\ "model-steps-3.onnx" \in RootSet => PickOf("matcha") = "model-steps-3.onnx"
        /\ "model-steps-3.onnx" \notin RootSet => StepCount(PickOf("matcha")) = MinStepCount
        /\ \A i \in 1..Len(classified) : classified[i].files[1] = PickOf("matcha")

\* A repository holding the 2-step and the 3-step checkpoint was classified
\* and its entries carry the 3-step file, not the one of the least count.
C13_Witness ==
    /\ Returned
    /\ {"model-steps-2.onnx", "model-steps-3.onnx"} \subseteq RootSet
    /\ MinStepCount = 2
    /\ Len(classified) = 2
    /\ classified[1].files[1] = "model-steps-3.onnx"

\* What the listing L[r] of repository r classifies to; nothing when the
\* repository was unavailable.
ClassifiedOf(r, L) ==
    IF L[r] = Nothing THEN <<>> ELSE _classify_repo(r, RepoName(r), L[r][1])

\* The repositories of D that yield an entry of id k under the listings L.
ProducersOf(k, D, L) ==
    {r \in D : \E i \in 1..Len(ClassifiedOf(r, L)) : ClassifiedOf(r, L)[i].id = k}

\* The greatest of a non-empty set of strings.
Greatest(S) == CHOOSE r \in S : \A q \in S : q = r \/ StrLess(q, r)

\* The catalog as a function of the set D of repository ids discovered and
\* of the listing L of each: the fixed entries, then for every id some
\* repository of D yields, in ascending id order, the entry of that id from
\* the greatest repository that yields it.
CatalogOf(D, L) ==
    LET ids     == UNION {{e.id : e \in Range(ClassifiedOf(r, L))} : r \in D}
        keep(k) == LET es == ClassifiedOf(Greatest(ProducersOf(k, D, L)), L)
                   IN  es[CHOOSE i \in 1..Len(es) :
                              es[i].id = k /\ \A j \in (i + 1)..Len(es) : es[j].id # k]
    IN  [schema_version |-> SCHEMA_VERSION,
         models |-> _fixed_entries \o Pick([k \in ids |-> keep(k)], SortedSet(ids))]

\* C14: the catalog is a function of the set of repository ids discovered
\* and of the listing of each repository alone: whatever the order in which
\* the searches returned the ids, and whatever failed attempts came before
\* the answers, the one document written is CatalogOf of those inputs.
C14_Deterministic ==
    Done => /\ DOMAIN sib_cache = discovered
            /\ asset_file = <<CatalogOf(discovered, sib_cache)>>

\* A run of two repositories ended whose entries have the same id, so that
\* the order of classification decides which of the two is written.
C14_Witness ==
    /\ Done
    /\ Cardinality(discovered) = 2
    /\ Len(entries) = 2
    /\ entries[1].id = entries[2].id
    /\ entries[1] # entries[2]
    /\ Len(Models) = Len(FixedIds) + 1

\* The call's arguments pass the gating and the pick of family F.
Passes(F) == RequiredFiles(F) \subseteq RootSet /\ PickOf(F) # None

\* C16: the family tests are made in the order Matcha, Kokoro, Kitten, VITS
\* and the first that holds decides: every entry returned has that family
\* as its model_type, and when that family's gating or pick fails nothing
\* is returned, whatever later families' tests hold; with no test holding
\* nothing is returned.  So all entries of a call have one model_type.
C16_FirstMatchWins ==
    Returned =>
        /\ \A F \in Families :
              Selected(F) =>
                  /\ \A i \in 1..Len(classified) : classified[i].model_type = F
                  /\ ~Passes(F) => classified = <<>>
        /\ (\A F \in Families : ~Member(F)) => classified = <<>>
        /\ \A i, j \in 1..Len(classified) :
              classified[i].model_type = classified[j].model_type

\* A repository that passes the Matcha and the VITS test was classified:
\* Matcha's pick fails, VITS's gating and pick would pass, nothing is returned.
C16_Witness ==
    /\ Returned
    /\ Selected("matcha")
    /\ Member("vits")
    /\ ~Passes("matcha")
    /\ Passes("vits")
    /\ ~CoquiDropped(repo_name)
    /\ classified = <<>>

\* The places of the classified entries of id k, in classification order.
PlacesOf(k) == {i \in 1..Len(entries) : entries[i].id = k}

\* The greatest of a non-empty set of numbers.
Last(S) == CHOOSE i \in S : \A j \in S : j <= i

\* C17: of the classified entries of one id the catalog written holds
\* exactly one, the last classified; it comes from the greatest repository
\* id among the repositories whose entries have that id.
C17_LastWriterWins ==
    Done =>
        \A k \in {entries[i].id : i \in 1..Len(entries)} :
            LET at == {p \in 1..Len(Models) : Models[p].id = k}
            IN  /\ Cardinality(at) = 1
                /\ \A p \in at :
                      /\ Models[p] = entries[Last(PlacesOf(k))]
                      /\ Models[p].source.repo =
                             Greatest({entries[i].source.repo : i \in PlacesOf(k)})

\* A catalog was written after two repositories gave entries of one id: it
\* holds the second, that of the greater repository id, and not the first.
C17_Witness ==
    /\ Done
    /\ Len(entries) = 2
    /\ entries[1].id = entries[2].id
    /\ StrLess(entries[1].source.repo, entries[2].source.repo)
    /\ Models[Len(FixedIds) + 1] = entries[2]
    /\ \A p \in 1..Len(Models) : Models[p] # entries[1]

\* The ids the entries of the models list ms depend on.
DependedOn(ms) == UNION {Range(DepsOf(ms[i])) : i \in 1..Len(ms)}

\* C18: in every catalog written, every id in the dependencies of an entry
\* is the id of an entry of that catalog which is one of the fixed entries
\* and has engine asset_only.
C18_DependenciesDefined ==
    \A d \in Range(asset_file) :
        \A dep \in DependedOn(d.models) :
            \E p \in 1..Len(d.models) :
                /\ d.models[p].id = dep
                /\ d.models[p].engine = "asset_only"
                /\ d.models[p] \in Range(_fixed_entries)

\* A catalog was written whose entries depend on the espeak data and on both
\* vocoders.
C18_Witness ==
    /\ Done
    /\ DependedOn(Models) =
           {"sherpa-espeak-ng-data", "sherpa-hifigan-v3", "sherpa-vocos-22khz-univ"}

(***************************************************************************)
(* Claims about a single request.                                          *)
(***************************************************************************)
IsSuccess(resp) == resp.kind = "response" /\ resp.status = 200

\* The responses that end the request at once as unavailable.
EndsAtOnce(resp) ==
    \/ resp.kind = "http_error" /\ resp.code \in {401, 403, 404}
    \/ resp.kind = "response" /\ resp.status # 200

OtherFailure(resp) == ~IsSuccess(resp) /\ ~EndsAtOnce(resp)

\* C15: a request makes at most 4 attempts and then has ended; a 401, 403,
\* 404 or a non-200 status ends it at once as unavailable; any other failure
\* leaves it going while attempts remain; the first success ends it with the
\* body received; after 4 failures it has ended as unavailable, by a return.
C15_BoundedAttempts ==
    LET n == Len(http_log) IN
    /\ http_pc \in {"attempt", "returned"}
    /\ n <= 4
    /\ n = 4 => http_pc = "returned"
    /\ \A i \in 1..(n - 1) : OtherFailure(http_log[i])
    /\ (n > 0 /\ n < 4 /\ OtherFailure(http_log[n])) => http_pc = "attempt"
    /\ (n > 0 /\ ~OtherFailure(http_log[n])) => http_pc = "returned"
    /\ http_pc = "attempt" => attempt = n
    /\ http_pc = "returned" =>
          /\ n > 0
          /\ IsSuccess(http_log[n]) => http_result = Some(http_log[n].body)
          /\ ~IsSuccess(http_log[n]) => http_result = Nothing

\* A request met four failures of the retried kind and ended as unavailable.
C15_Witness ==
    /\ http_pc = "returned"
    /\ Len(http_log) = 4
    /\ \A i \in 1..4 : OtherFailure(http_log[i])
    /\ http_result = Nothing
    /\ last_err = Some(http_log[4])

(***************************************************************************)
(* Claims about the normalizer.                                            *)
(***************************************************************************)
\* The characters of [a-z0-9-].
IdClass == LowerSet \cup DigitSet \cup {"-"}

\* C11: _normalize_id is idempotent: applied to its own result it returns
\* that result unchanged, for every input string.
C11_Idempotent == nid_pc = "twice" => nid_twice = nid_once

\* A name that the first application changes and the second leaves alone:
\* upper case, an underscore and repeated separators all occur.
C11_Witness ==
    /\ nid_pc = "twice"
    /\ repo_name = "B_-a"
    /\ nid_once = "b-a"
    /\ nid_twice = "b-a"

\* C12: for every input string the result of _normalize_id has only
\* characters of [a-z0-9-], no two consecutive hyphens, and no hyphen at
\* either end.
C12_OnlyIdClass ==
    nid_pc # "call" =>
        /\ \A i \in 1..Len(nid_once) : Char(nid_once, i) \in IdClass
        /\ ~Contains(nid_once, "--")
        /\ ~StartsWith(nid_once, "-")
        /\ ~EndsWith(nid_once, "-")

====
